---- MODULE Spec2Model ----
(***************************************************************************)
(* A model of kazoo/request_objects.py: the request descriptor            *)
(* (KazooRequest), its execute method and the two authentication          *)
(* variants.  A descriptor is constructed once (Init); callers then run   *)
(* execute on it, each call passing through validation, request           *)
(* preparation, the HTTP dispatch, and the classification of the          *)
(* response.                                                               *)
(*                                                                         *)
(* Python values are records tagged with their type.  A path template is  *)
(* a sequence of characters, so that the regular expression of            *)
(* _get_params_from_path and str.format are computed, not assumed.        *)
(***************************************************************************)
EXTENDS Integers, Sequences, FiniteSets, TLC

VARIABLES descriptor, frame, network, calls

vars == <<descriptor, frame, network, calls>>

(* ------------------------------ bounds -------------------------------- *)

\* Longest path template, in segments ("/x", "/{a}", ...).
MaxSegments == 2

\* Callers that run execute concurrently on the one descriptor (SpecConc).
NumCallers == 2

Callers == 1..NumCallers

(* --------------------------- Python values ---------------------------- *)

PyNone == [type |-> "NoneType"]

PyStr(s) == [type |-> "str", val |-> s]

\* A dict keeps its items in insertion order: a sequence of <<key, value>>.
PyDict(its) == [type |-> "dict", items |-> its]

\* bool(v), as `if v:` takes it.
Truthy(v) ==
    CASE v.type = "NoneType" -> FALSE
      [] v.type = "str" -> v.val # ""
      [] v.type = "dict" -> Len(v.items) > 0

\* k in d
HasKey(d, k) == \E i \in 1..Len(d.items) : d.items[i][1] = k

\* d[k], for a key d has
GetItem(d, k) == d.items[CHOOSE i \in 1..Len(d.items) : d.items[i][1] = k][2]

\* json.dumps(v): the JSON text of v, a str.
JsonDumps(v) == [type |-> "str", json |-> v]

EmptyMap == [n \in {} |-> PyNone]

(* ------------------------ outcomes of a call -------------------------- *)

NoResult == [kind |-> "none"]

\* An exception raised at a line of request_objects.py.
Raised(exc, args, line) == [kind |-> "raise", exc |-> exc, args |-> args, line |-> line]

\* A value returned at a line of request_objects.py.
Returned(value, line) == [kind |-> "return", value |-> value, line |-> line]

(* ---------------------------- the descriptor -------------------------- *)

http_methods == {"get", "post", "put", "delete"}

\* str.lower() on the method names the model draws.
Lower(s) ==
    CASE s = "GET" -> "get"
      [] s = "Put" -> "put"
      [] s = "PATCH" -> "patch"
      [] OTHER -> s

\* The characters of [a-zA-Z0-9_] that occur in the model's templates.
NameChars == {"a", "b", "x"}

RECURSIVE Join(_)
Join(chars) == IF chars = <<>> THEN "" ELSE Head(chars) \o Join(Tail(chars))

\* Length of the longest run of name characters of path starting at i.
RECURSIVE NameRun(_, _)
NameRun(path, i) ==
    IF i <= Len(path) /\ path[i] \in NameChars THEN 1 + NameRun(path, i + 1) ELSE 0

\* re.findall("{([a-zA-Z0-9_]+)}", path), scanning from position i:
\* the leftmost non-overlapping matches, each the name between the braces.
RECURSIVE FindAll(_, _)
FindAll(path, i) ==
    IF i > Len(path) THEN <<>>
    ELSE LET n == NameRun(path, i + 1)
         IN  IF /\ path[i] = "{"
                /\ n >= 1
                /\ i + n + 1 <= Len(path)
                /\ path[i + n + 1] = "}"
             THEN <<Join(SubSeq(path, i + 1, i + n))>> \o FindAll(path, i + n + 2)
             ELSE FindAll(path, i + 1)

_get_params_from_path(path) == FindAll(path, 1)

\* KazooRequest.__init__
KazooRequest(path, auth_required, method, get_params) ==
    [cls |-> "KazooRequest",
     path |-> path,
     _required_param_names |-> _get_params_from_path(path),
     auth_required |-> auth_required,
     method |-> method,
     get_params |-> get_params]

\* hashlib.md5(s).hexdigest(): the hex digest, a str.
Md5HexDigest(s) == [type |-> "str", md5 |-> s]

\* UsernamePasswordAuthRequest._get_hashed_credentials
_get_hashed_credentials(self) ==
    Md5HexDigest(self.username \o ":" \o self.password)

\* UsernamePasswordAuthRequest.__init__
UsernamePasswordAuthRequest(username, password, account_name) ==
    [cls |-> "UsernamePasswordAuthRequest",
     path |-> <<"/", "u", "s", "e", "r", "_", "a", "u", "t", "h">>,
     _required_param_names |->
         _get_params_from_path(<<"/", "u", "s", "e", "r", "_", "a", "u", "t", "h">>),
     auth_required |-> FALSE,
     method |-> PyStr("get"),
     get_params |-> PyNone,
     username |-> username,
     password |-> password,
     account_name |-> account_name]

\* ApiKeyAuthRequest.__init__
ApiKeyAuthRequest(api_key) ==
    [cls |-> "ApiKeyAuthRequest",
     path |-> <<"/", "a", "p", "i", "_", "a", "u", "t", "h">>,
     _required_param_names |->
         _get_params_from_path(<<"/", "a", "p", "i", "_", "a", "u", "t", "h">>),
     auth_required |-> FALSE,
     method |-> PyStr("get"),
     get_params |-> PyNone,
     api_key |-> api_key]

\* _get_headers with the token header set whatever auth_required is.
_get_headers_always_token(self, token) ==
    ("Content-Type" :> PyStr("application/json")) @@ ("X-Auth-Token" :> token)

\* KazooRequest._get_headers
_get_headers(self, token) ==
    IF self.auth_required
    THEN ("Content-Type" :> PyStr("application/json")) @@ ("X-Auth-Token" :> token)
    ELSE ("Content-Type" :> PyStr("application/json"))

\* Position of the first "}" of path at or after i, 0 when there is none.
RECURSIVE ClosingBrace(_, _)
ClosingBrace(path, i) ==
    IF i > Len(path) THEN 0
    ELSE IF path[i] = "}" THEN i
    ELSE ClosingBrace(path, i + 1)

\* A formatting result with the text s put in front of it; an error stays.
Prepend(s, r) == IF r.ok THEN [ok |-> TRUE, out |-> s \o r.out] ELSE r

\* path.format(**params), scanning from position i: "{{" and "}}" are
\* literal braces, "{name}" is replaced by str(params[name]), "{}" asks for
\* a positional argument and none is passed, a lone brace is an error.
RECURSIVE FormatFrom(_, _, _)
FormatFrom(path, i, params) ==
    IF i > Len(path) THEN [ok |-> TRUE, out |-> ""]
    ELSE IF path[i] = "{" THEN
        IF i < Len(path) /\ path[i + 1] = "{"
        THEN Prepend("{", FormatFrom(path, i + 2, params))
        ELSE LET close == ClosingBrace(path, i + 1)
                 field == SubSeq(path, i + 1, close - 1)
             IN  IF close = 0
                 THEN [ok |-> FALSE, exc |-> "ValueError"]
                 ELSE IF \E j \in 1..Len(field) : field[j] = "{"
                 THEN [ok |-> FALSE, exc |-> "ValueError"]
                 ELSE IF field = <<>>
                 THEN [ok |-> FALSE, exc |-> "IndexError"]
                 ELSE IF Join(field) \notin DOMAIN params
                 THEN [ok |-> FALSE, exc |-> "KeyError"]
                 ELSE Prepend(params[Join(field)].val,
                              FormatFrom(path, close + 1, params))
    ELSE IF path[i] = "}" THEN
        IF i < Len(path) /\ path[i + 1] = "}"
        THEN Prepend("}", FormatFrom(path, i + 2, params))
        ELSE [ok |-> FALSE, exc |-> "ValueError"]
    ELSE Prepend(path[i], FormatFrom(path, i + 1, params))

\* KazooRequest._get_url_with_variables_replaced
_get_url_with_variables_replaced(self, params) == FormatFrom(self.path, 1, params)

\* urlencode(d): "k=v" for each item, joined by "&".
RECURSIVE UrlEncodeItems(_)
UrlEncodeItems(its) ==
    IF its = <<>> THEN ""
    ELSE Head(its)[1] \o "=" \o Head(its)[2].val
         \o (IF Tail(its) = <<>> THEN "" ELSE "&" \o UrlEncodeItems(Tail(its)))

urlencode(d) == UrlEncodeItems(d.items)

\* KazooRequest._get_url
_get_url(self, params, base_url) ==
    LET replaced == _get_url_with_variables_replaced(self, params)
    IN  IF ~replaced.ok THEN replaced
        ELSE IF Truthy(self.get_params)
        THEN [ok |-> TRUE, out |-> base_url \o replaced.out \o "?" \o urlencode(self.get_params)]
        ELSE [ok |-> TRUE, out |-> base_url \o replaced.out]

\* The request functions of the requests module: getattr(requests, name)
\* finds these names and no upper-case spelling of them.
RequestsFunctions ==
    {"request", "get", "options", "head", "post", "put", "patch", "delete"}

\* execute, lines 58-59: the explicit method, else the descriptor's.
ResolveMethod(self, method) == IF method = PyNone THEN self.method ELSE method

\* execute, line 60
InvalidMethod(method) == Lower(method.val) \notin http_methods

\* MissingParams with the loop left after its first name.
MissingParamsFirstOnly(names, kwargs) ==
    IF names # <<>> /\ Head(names) \notin DOMAIN kwargs THEN <<Head(names)>> ELSE <<>>

\* execute, lines 63-64: the required names absent from kwargs, in order.
MissingParams(names, kwargs) ==
    SelectSeq(names, LAMBDA n : n \notin DOMAIN kwargs)

\* Validation with the parameters checked before the method.
ValidationParamsFirst(self, method, kwargs) ==
    LET m == ResolveMethod(self, method)
        missing == MissingParams(self._required_param_names, kwargs)
    IN  IF missing # <<>>
        THEN Raised("ValueError",
                    <<PyStr("keyword argument {0} is required"), PyStr(Head(missing))>>, 65)
        ELSE IF InvalidMethod(m)
        THEN Raised("InvalidHttpMethodError",
                    <<PyStr("method {0} is not a valid http method"), m>>, 61)
        ELSE NoResult

\* execute, lines 58-66: the exception validation raises, NoResult when
\* it raises none.
Validation(self, method, kwargs) ==
    LET m == ResolveMethod(self, method)
        missing == MissingParams(self._required_param_names, kwargs)
    IN  IF InvalidMethod(m)
        THEN Raised("InvalidHttpMethodError",
                    <<PyStr("method {0} is not a valid http method"), m>>, 61)
        ELSE IF missing # <<>>
        THEN Raised("ValueError",
                    <<PyStr("keyword argument {0} is required"), PyStr(Head(missing))>>, 65)
        ELSE NoResult

\* execute, lines 73-77: the keyword arguments of the request function.
RequestKwargs(data, files) ==
    (IF Truthy(data)
     THEN "data" :> JsonDumps(PyDict(<<<<"data", data>>>>))
     ELSE EmptyMap)
    @@ (IF Truthy(files) THEN "files" :> files ELSE EmptyMap)

\* execute, lines 67-77, for a validated call: the URL, the headers, the
\* request function and its keyword arguments, or the exception raised
\* on the way.
Preparation(self, method, data, token, files, kwargs, base_url) ==
    LET url == _get_url(self, kwargs, base_url)
    IN  IF ~url.ok
        THEN [result |-> Raised(url.exc, <<>>, 54)]
        ELSE IF method.val \notin RequestsFunctions
        THEN [result |-> Raised("AttributeError", <<PyStr("requests"), method>>, 72)]
        ELSE [result |-> NoResult,
              full_url |-> url.out,
              headers |-> _get_headers(self, token),
              req_func |-> method.val,
              kwargs |-> RequestKwargs(data, files)]

(* ------------------------------ responses ----------------------------- *)

\* raw_response.json(): the parsed body, or the decoder's error.
Json(raw_response) ==
    IF raw_response.body.kind = "json"
    THEN [ok |-> TRUE, value |-> raw_response.body.value]
    ELSE [ok |-> FALSE, exc |-> "JSONDecodeError"]

\* v[k] at a line: the item, or the KeyError or TypeError of the subscript.
Subscript(v, k, line) ==
    IF v.type # "dict"
    THEN [ok |-> FALSE, result |-> Raised("TypeError", <<PyStr(k)>>, line)]
    ELSE IF ~HasKey(v, k)
    THEN [ok |-> FALSE, result |-> Raised("KeyError", <<PyStr(k)>>, line)]
    ELSE [ok |-> TRUE, value |-> GetItem(v, k)]

\* KazooRequest._handle_500_error
_handle_500_error(raw_response) ==
    IF "X-Request-Id" \notin DOMAIN raw_response.headers
    THEN Raised("KeyError", <<PyStr("X-Request-Id")>>, 101)
    ELSE LET request_id == raw_response.headers["X-Request-Id"]
             parsed == Json(raw_response)
         IN  IF ~parsed.ok
             THEN Raised(parsed.exc, <<>>, 102)
             ELSE IF Truthy(parsed.value)
             THEN LET message == Subscript(parsed.value, "data", 103)
                  IN  IF ~message.ok THEN message.result
                      ELSE Raised("KazooApiError",
                                  <<PyStr("Internal Server Error, Request ID was %s message was %s"),
                                    request_id, message.value>>, 106)
             ELSE Raised("KazooApiError",
                         <<PyStr("Internal Server Error, Request ID was %s message was %s"),
                           request_id, PyStr("There was no error message")>>, 106)

\* _handle_error without the branch for code 401.
_handle_error_without_401(error_data) ==
    LET error == Subscript(error_data, "error", 90)
    IN  IF ~error.ok THEN error.result
        ELSE IF error.value = PyStr("400") /\ HasKey(error_data, "data")
        THEN Raised("KazooApiBadDataError", <<GetItem(error_data, "data")>>, 91)
        ELSE LET request_id == Subscript(error_data, "request_id", 98)
                 message == Subscript(error_data, "message", 98)
             IN  IF ~request_id.ok THEN request_id.result
                 ELSE IF ~message.ok THEN message.result
                 ELSE Raised("KazooApiError",
                             <<PyStr("There was an error calling the kazoo api, Request ID was %s the error was %s"),
                               request_id.value, message.value>>, 96)

\* KazooRequest._handle_error
_handle_error(error_data) ==
    LET error == Subscript(error_data, "error", 90)
    IN  IF ~error.ok THEN error.result
        ELSE IF error.value = PyStr("400") /\ HasKey(error_data, "data")
        THEN Raised("KazooApiBadDataError", <<GetItem(error_data, "data")>>, 91)
        ELSE IF error.value = PyStr("401")
        THEN Raised("KazooApiAuthenticationError", <<PyStr("Invalid credentials")>>, 94)
        ELSE LET request_id == Subscript(error_data, "request_id", 98)
                 message == Subscript(error_data, "message", 98)
             IN  IF ~request_id.ok THEN request_id.result
                 ELSE IF ~message.ok THEN message.result
                 ELSE Raised("KazooApiError",
                             <<PyStr("There was an error calling the kazoo api, Request ID was %s the error was %s"),
                               request_id.value, message.value>>, 96)

\* HandleResponse returning the data of the body in place of the body.
HandleResponseReturningData(raw_response) ==
    IF raw_response.status_code = 500
    THEN _handle_500_error(raw_response)
    ELSE LET parsed == Json(raw_response)
         IN  IF ~parsed.ok THEN Raised(parsed.exc, <<>>, 82)
             ELSE LET status == Subscript(parsed.value, "status", 83)
                      data == Subscript(parsed.value, "data", 87)
                  IN  IF ~status.ok THEN status.result
                      ELSE IF status.value = PyStr("error")
                      THEN _handle_error(parsed.value)
                      ELSE IF ~data.ok THEN data.result
                      ELSE Returned(data.value, 87)

\* execute, lines 80-87: what execute makes of the response.
HandleResponse(raw_response) ==
    IF raw_response.status_code = 500
    THEN _handle_500_error(raw_response)
    ELSE LET parsed == Json(raw_response)
         IN  IF ~parsed.ok THEN Raised(parsed.exc, <<>>, 82)
             ELSE LET status == Subscript(parsed.value, "status", 83)
                  IN  IF ~status.ok THEN status.result
                      ELSE IF status.value = PyStr("error")
                      THEN _handle_error(parsed.value)
                      ELSE Returned(parsed.value, 87)

(* ------------------------------- inputs ------------------------------- *)

BaseUrl == "http://h"

\* A path segment: a literal, or a placeholder for a or for b.
Segments == {<<"x">>, <<"{", "a", "}">>, <<"{", "b", "}">>}

RECURSIVE PathsOf(_)
PathsOf(n) ==
    IF n = 0 THEN {<<>>}
    ELSE {p \o <<"/">> \o s : p \in PathsOf(n - 1), s \in Segments}

\* The templates of up to MaxSegments segments, and one that str.format
\* rejects and the regular expression does not match.
Paths == UNION {PathsOf(n) : n \in 1..MaxSegments} \cup {<<"/", "{", "}">>}

DefaultMethods == {PyStr("get"), PyStr("Put"), PyStr("PATCH")}

GetParams == {PyNone, PyDict(<<<<"k", PyStr("v")>>>>)}

Descriptors ==
    {KazooRequest(p, a, m, g) :
        p \in Paths, a \in BOOLEAN, m \in DefaultMethods, g \in GetParams}
    \cup {UsernamePasswordAuthRequest("u", "p", "acct"), ApiKeyAuthRequest("key")}

MethodArgs == {PyNone, PyStr("post"), PyStr("GET"), PyStr("PATCH")}

DataArgs == {PyNone, PyDict(<<>>), PyDict(<<<<"name", PyStr("n")>>>>)}

TokenArgs == {PyNone, PyStr("tok")}

FilesArgs == {PyNone, PyDict(<<>>), PyDict(<<<<"file", PyStr("bytes")>>>>)}

ParamNames == {"a", "b"}

KwargsArgs == {[n \in S |-> PyStr("v" \o n)] : S \in SUBSET ParamNames}

\* The arguments of an execute call.
ExecuteArgs ==
    [method : MethodArgs, data : DataArgs, token : TokenArgs,
     files : FilesArgs, kwargs : KwargsArgs]

\* A field of a JSON object: absent, or present with one of vals.
Optional(k, vals) == {<<>>} \cup {<<<<k, v>>>> : v \in vals}

JsonObjects ==
    {PyDict(s \o e \o d \o r \o m) :
        s \in Optional("status", {PyStr("success"), PyStr("error")}),
        e \in Optional("error", {PyStr("400"), PyStr("401"), PyStr("404")}),
        d \in Optional("data", {PyStr("oops"), PyDict(<<<<"field", PyStr("bad")>>>>)}),
        r \in Optional("request_id", {PyStr("req1")}),
        m \in Optional("message", {PyStr("msg1")})}

\* A response body: text that is no JSON, JSON null, or a JSON object.
Bodies ==
    {[kind |-> "text"]}
    \cup {[kind |-> "json", value |-> v] : v \in {PyNone} \cup JsonObjects}

ResponseHeaders == {EmptyMap, "X-Request-Id" :> PyStr("abc123")}

Responses == [status_code : {200, 500}, headers : ResponseHeaders, body : Bodies]

\* The smaller inputs of the concurrent specification.
ConcDescriptors ==
    {KazooRequest(<<"/", "{", "a", "}">>, TRUE, PyStr("get"), PyNone),
     KazooRequest(<<"/", "x">>, FALSE, PyStr("PATCH"), PyNone),
     UsernamePasswordAuthRequest("u", "p", "acct"),
     ApiKeyAuthRequest("key")}

ConcMethodArgs == {PyNone, PyStr("GET"), PyStr("post"), PyStr("PATCH")}

ConcKwargsArgs == {EmptyMap, [n \in {"a"} |-> PyStr("v" \o n)]}

ConcExecuteArgs ==
    [method : ConcMethodArgs, data : {PyNone, PyDict(<<<<"name", PyStr("n")>>>>)},
     token : {PyStr("tok")},
     files : {PyNone}, kwargs : ConcKwargsArgs]

ConcResponses ==
    {[status_code |-> 200, headers |-> EmptyMap,
      body |-> [kind |-> "json",
                value |-> PyDict(<<<<"status", PyStr("success")>>,
                                   <<"data", PyStr("oops")>>>>)]],
     [status_code |-> 200, headers |-> EmptyMap,
      body |-> [kind |-> "json",
                value |-> PyDict(<<<<"status", PyStr("error")>>,
                                   <<"error", PyStr("401")>>>>)]],
     [status_code |-> 500, headers |-> "X-Request-Id" :> PyStr("abc123"),
      body |-> [kind |-> "text"]]}

(* ---------------------------- state machine --------------------------- *)

NoArgs == [type |-> "NoneType"]

NoResponse == [type |-> "NoneType"]

NoRequest == [type |-> "NoneType"]

\* The frame of a caller that is not inside execute.
IdleFrame ==
    [pc |-> "idle", args |-> NoArgs, method |-> PyNone, kwargs |-> EmptyMap,
     full_url |-> "", headers |-> EmptyMap, req_func |-> "",
     raw_response |-> NoResponse, result |-> NoResult]

InitWith(descriptors) ==
    /\ descriptor \in descriptors
    /\ frame = [t \in Callers |-> IdleFrame]
    /\ network = [t \in Callers |-> NoRequest]
    /\ calls = [t \in Callers |-> 0]

Init == InitWith(Descriptors)

InitConc == InitWith(ConcDescriptors)

\* execute, line 56: the call binds the arguments.
EnterExecute(t, method, data, token, files, kwargs) ==
    /\ frame[t].pc = "idle"
    /\ frame' = [frame EXCEPT ![t] =
           [IdleFrame EXCEPT
               !.pc = "called",
               !.args = [method |-> method, data |-> data, token |-> token,
                         files |-> files, kwargs |-> kwargs],
               !.method = method,
               !.kwargs = kwargs]]
    /\ calls' = [calls EXCEPT ![t] = 0]
    /\ UNCHANGED <<descriptor, network>>

\* KazooRequest.execute called on a plain descriptor, with arguments
\* drawn from args.
Execute(t, args) ==
    /\ descriptor.cls = "KazooRequest"
    /\ frame[t].pc = "idle"
    /\ \E a \in args :
          EnterExecute(t, a.method, a.data, a.token, a.files, a.kwargs)

\* UsernamePasswordAuthRequest.execute
UsernamePasswordAuthExecute(t) ==
    /\ descriptor.cls = "UsernamePasswordAuthRequest"
    /\ EnterExecute(t, PyStr("put"),
                    PyDict(<<<<"credentials", _get_hashed_credentials(descriptor)>>,
                             <<"account_name", PyStr(descriptor.account_name)>>>>),
                    PyNone, PyNone, EmptyMap)

\* ApiKeyAuthRequest.execute
ApiKeyAuthExecute(t) ==
    /\ descriptor.cls = "ApiKeyAuthRequest"
    /\ EnterExecute(t, PyStr("put"),
                    PyDict(<<<<"api_key", PyStr(descriptor.api_key)>>>>),
                    PyNone, PyNone, EmptyMap)

\* Validate keeping the resolved method on the descriptor
\* (self.method = method).
ValidateStoringMethod(t) ==
    /\ frame[t].pc = "called"
    /\ LET m == ResolveMethod(descriptor, frame[t].method)
           v == Validation(descriptor, frame[t].method, frame[t].kwargs)
       IN  /\ frame' = [frame EXCEPT ![t] =
                  IF v = NoResult
                  THEN [@ EXCEPT !.pc = "validated", !.method = m]
                  ELSE [@ EXCEPT !.pc = "done", !.method = m, !.result = v]]
           /\ descriptor' = [descriptor EXCEPT !.method = m]
    /\ UNCHANGED <<network, calls>>

\* execute, lines 58-66: the method is resolved and checked, then the
\* required parameters.
Validate(t) ==
    /\ frame[t].pc = "called"
    /\ LET m == ResolveMethod(descriptor, frame[t].method)
           v == Validation(descriptor, frame[t].method, frame[t].kwargs)
       IN  frame' = [frame EXCEPT ![t] =
               IF v = NoResult
               THEN [@ EXCEPT !.pc = "validated", !.method = m]
               ELSE [@ EXCEPT !.pc = "done", !.method = m, !.result = v]]
    /\ UNCHANGED <<descriptor, network, calls>>

\* execute, lines 67-77: the URL, the headers, the request function and
\* its keyword arguments (kwargs is rebound).
Prepare(t) ==
    /\ frame[t].pc = "validated"
    /\ LET f == frame[t]
           p == Preparation(descriptor, f.method, f.args.data, f.args.token,
                            f.args.files, f.kwargs, BaseUrl)
       IN  frame' = [frame EXCEPT ![t] =
               IF p.result = NoResult
               THEN [@ EXCEPT !.pc = "prepared", !.full_url = p.full_url,
                              !.headers = p.headers, !.req_func = p.req_func,
                              !.kwargs = p.kwargs]
               ELSE [@ EXCEPT !.pc = "done", !.result = p.result]]
    /\ UNCHANGED <<descriptor, network, calls>>

\* execute, line 78: the request function is called and the request is
\* on the network.
Dispatch(t) ==
    /\ frame[t].pc = "prepared"
    /\ network' = [network EXCEPT ![t] =
           [func |-> frame[t].req_func, url |-> frame[t].full_url,
            headers |-> frame[t].headers, kwargs |-> frame[t].kwargs]]
    /\ calls' = [calls EXCEPT ![t] = @ + 1]
    /\ frame' = [frame EXCEPT ![t].pc = "waiting"]
    /\ UNCHANGED descriptor

\* The request reaches the server: it is off the network, and execute
\* blocks in the request function.  The locals execute no longer reads
\* are dropped.
Deliver(t) ==
    /\ frame[t].pc = "waiting"
    /\ network' = [network EXCEPT ![t] = NoRequest]
    /\ frame' = [frame EXCEPT ![t] = [IdleFrame EXCEPT !.pc = "pending"]]
    /\ UNCHANGED <<descriptor, calls>>

\* execute, line 78: the request function returns the server's response.
\* The response is drawn from responses.
Respond(t, responses) ==
    /\ frame[t].pc = "pending"
    /\ \E raw_response \in responses :
          frame' = [frame EXCEPT ![t] =
              [@ EXCEPT !.pc = "responded", !.raw_response = raw_response]]
    /\ UNCHANGED <<descriptor, network, calls>>

\* execute, line 78: the request function raises (no connection).
TransportError(t) ==
    /\ frame[t].pc = "pending"
    /\ frame' = [frame EXCEPT ![t] =
           [@ EXCEPT !.pc = "done", !.result = Raised("ConnectionError", <<>>, 78)]]
    /\ UNCHANGED <<descriptor, network, calls>>

\* execute, lines 80-87: the response is classified.
Receive(t) ==
    /\ frame[t].pc = "responded"
    /\ frame' = [frame EXCEPT ![t] =
           [@ EXCEPT !.pc = "done",
                      !.result = HandleResponse(frame[t].raw_response)]]
    /\ UNCHANGED <<descriptor, network, calls>>

\* The caller takes the outcome and is free to call again.
Finish(t) ==
    /\ frame[t].pc = "done"
    /\ frame' = [frame EXCEPT ![t] = IdleFrame]
    /\ calls' = [calls EXCEPT ![t] = 0]
    /\ UNCHANGED <<descriptor, network>>

\* One caller, every input.
Next ==
    \/ Execute(1, ExecuteArgs)
    \/ UsernamePasswordAuthExecute(1)
    \/ ApiKeyAuthExecute(1)
    \/ Validate(1)
    \/ Prepare(1)
    \/ Dispatch(1)
    \/ Deliver(1)
    \/ Respond(1, Responses)
    \/ TransportError(1)
    \/ Receive(1)
    \/ Finish(1)

Spec == Init /\ [][Next]_vars

\* NumCallers callers on one descriptor, interleaved at every step.
NextConc ==
    \E t \in Callers :
        \/ Execute(t, ConcExecuteArgs)
        \/ UsernamePasswordAuthExecute(t)
        \/ ApiKeyAuthExecute(t)
        \/ Validate(t)
        \/ Prepare(t)
        \/ Dispatch(t)
        \/ Deliver(t)
        \/ Respond(t, ConcResponses)
        \/ TransportError(t)
        \/ Receive(t)
        \/ Finish(t)

SpecConc == InitConc /\ [][NextConc]_vars

(* ------------------------------- claims ------------------------------- *)

\* The method execute resolves for the call of caller t.
ResolvedMethod(t) == ResolveMethod(descriptor, frame[t].args.method)

\* Caller t is past validation, or out of execute by an exception raised
\* before the request was sent, with the arguments of its call at hand.
Validated(t) == frame[t].args # NoArgs /\ frame[t].pc # "called"

\* A required parameter name of the descriptor is absent from the named
\* parameters of the call of caller t.
ParamAbsent(t) ==
    \E i \in 1..Len(descriptor._required_param_names) :
        descriptor._required_param_names[i] \notin DOMAIN frame[t].args.kwargs

\* C1: a call with a valid method that lacks a required path parameter
\* ends in the ValueError of line 65 (the missing-parameter error), and no
\* request of it is ever sent.
C1_MissingParameterFails ==
    \A t \in Callers :
        (Validated(t) /\ ~InvalidMethod(ResolvedMethod(t)) /\ ParamAbsent(t))
        => /\ frame[t].pc = "done"
           /\ frame[t].result.kind = "raise"
           /\ frame[t].result.exc = "ValueError"
           /\ frame[t].result.line = 65
           /\ calls[t] = 0
           /\ network[t] = NoRequest

\* A call that supplied one of two required parameters has failed.
C1_Witness ==
    \E t \in Callers :
        /\ frame[t].pc = "done"
        /\ frame[t].result.kind = "raise"
        /\ frame[t].result.exc = "ValueError"
        /\ Len(descriptor._required_param_names) = 2
        /\ descriptor._required_param_names[1] \in DOMAIN frame[t].args.kwargs
        /\ calls[t] = 0

\* C2: a call whose resolved method (the explicit one, else the
\* descriptor's) is none of get/post/put/delete ends in
\* InvalidHttpMethodError, with or without the required parameters, and no
\* request of it is ever sent.
C2_InvalidMethodFails ==
    \A t \in Callers :
        (Validated(t) /\ InvalidMethod(ResolvedMethod(t)))
        => /\ frame[t].pc = "done"
           /\ frame[t].result.kind = "raise"
           /\ frame[t].result.exc = "InvalidHttpMethodError"
           /\ frame[t].result.line = 61
           /\ calls[t] = 0
           /\ network[t] = NoRequest

\* A call with an invalid default method and a required parameter missing
\* has failed on the method.
C2_Witness ==
    \E t \in Callers :
        /\ frame[t].pc = "done"
        /\ frame[t].result.kind = "raise"
        /\ frame[t].result.exc = "InvalidHttpMethodError"
        /\ frame[t].args.method = PyNone
        /\ ParamAbsent(t)
        /\ calls[t] = 0

\* The URL of the call of caller t can be built: str.format accepts the
\* template with the named parameters of the call.
TemplateFormats(t) == _get_url(descriptor, frame[t].args.kwargs, BaseUrl).ok

\* C3: a call whose method is one of get/post/put/delete in any spelling
\* of case, with every required parameter supplied (and a template
\* str.format accepts), does not fail before its request is sent.
C3_AnyCaseMethodDispatches ==
    \A t \in Callers :
        (/\ Validated(t)
         /\ ~InvalidMethod(ResolvedMethod(t))
         /\ ~ParamAbsent(t)
         /\ TemplateFormats(t))
        => frame[t].pc # "done"

\* Caller t is out of execute with the outcome of a response.
Answered(t) == frame[t].pc = "done" /\ frame[t].raw_response # NoResponse

\* The body of the response of caller t is a JSON object.
JsonObjectBody(t) ==
    /\ frame[t].raw_response.body.kind = "json"
    /\ frame[t].raw_response.body.value.type = "dict"

\* C4: a response of status 500 (with the X-Request-Id header, and a body
\* that is a JSON object with a data field or is no JSON) ends in
\* KazooApiError carrying the header's value and a message: the data of a
\* JSON body, the placeholder for a body that is no JSON.
C4_Status500IsGenericError ==
    \A t \in Callers :
        (/\ Answered(t)
         /\ frame[t].raw_response.status_code = 500
         /\ "X-Request-Id" \in DOMAIN frame[t].raw_response.headers
         /\ \/ frame[t].raw_response.body.kind = "text"
            \/ JsonObjectBody(t) /\ HasKey(frame[t].raw_response.body.value, "data"))
        => /\ frame[t].result.kind = "raise"
           /\ frame[t].result.exc = "KazooApiError"
           /\ frame[t].result.args[2] = frame[t].raw_response.headers["X-Request-Id"]
           /\ frame[t].result.args[3] =
                  IF frame[t].raw_response.body.kind = "text"
                  THEN PyStr("There was no error message")
                  ELSE GetItem(frame[t].raw_response.body.value, "data")

\* Caller t is out of execute with the outcome of a response whose
\* status is not 500 and whose body is a JSON object with a status field.
AnsweredWithStatus(t) ==
    /\ Answered(t)
    /\ frame[t].raw_response.status_code # 500
    /\ JsonObjectBody(t)
    /\ HasKey(frame[t].raw_response.body.value, "status")

\* The same, the status of the body being "error".
AnsweredWithError(t) ==
    /\ AnsweredWithStatus(t)
    /\ GetItem(frame[t].raw_response.body.value, "status") = PyStr("error")

\* The field k of the body of the response of caller t, None when absent.
BodyField(t, k) ==
    IF HasKey(frame[t].raw_response.body.value, k)
    THEN GetItem(frame[t].raw_response.body.value, k)
    ELSE PyNone

\* The outcome is the authentication error with its fixed message.
IsAuthenticationError(r) ==
    /\ r.kind = "raise"
    /\ r.exc = "KazooApiAuthenticationError"
    /\ r.args = <<PyStr("Invalid credentials")>>

\* The outcome is the bad-data error carrying data.
IsBadDataError(r, data) ==
    /\ r.kind = "raise"
    /\ r.exc = "KazooApiBadDataError"
    /\ r.args = <<data>>

\* The outcome is the KeyError of the subscript [k].
IsKeyError(r, k) ==
    /\ r.kind = "raise"
    /\ r.exc = "KeyError"
    /\ r.args = <<PyStr(k)>>

\* C5, as stated: for a body of status "error" with a code, code "401" gives the
\* authentication error, code "400" with data the bad-data error with
\* that data, and every other body KazooApiError with the request_id and
\* the message of the body.
C5_ErrorCodeDecides ==
    \A t \in Callers :
        (AnsweredWithError(t) /\ HasKey(frame[t].raw_response.body.value, "error"))
        => LET r == frame[t].result
               b == frame[t].raw_response.body.value
           IN  IF BodyField(t, "error") = PyStr("401")
               THEN IsAuthenticationError(r)
               ELSE IF BodyField(t, "error") = PyStr("400") /\ HasKey(b, "data")
               THEN IsBadDataError(r, GetItem(b, "data"))
               ELSE /\ r.kind = "raise"
                    /\ r.exc = "KazooApiError"
                    /\ HasKey(b, "request_id") => r.args[2] = GetItem(b, "request_id")
                    /\ HasKey(b, "message") => r.args[3] = GetItem(b, "message")

\* C5, amended: the same for the codes "401" and "400" with data; every
\* other body gives KazooApiError with its request_id and message when
\* it has an error code, a request_id and a message, and the KeyError of
\* the first of these three fields that is absent when one is.
C5_ErrorCodeDecidesGivenFields ==
    \A t \in Callers :
        AnsweredWithError(t)
        => LET r == frame[t].result
               b == frame[t].raw_response.body.value
           IN  IF BodyField(t, "error") = PyStr("401")
               THEN IsAuthenticationError(r)
               ELSE IF BodyField(t, "error") = PyStr("400") /\ HasKey(b, "data")
               THEN IsBadDataError(r, GetItem(b, "data"))
               ELSE IF ~HasKey(b, "error") THEN IsKeyError(r, "error")
               ELSE IF ~HasKey(b, "request_id") THEN IsKeyError(r, "request_id")
               ELSE IF ~HasKey(b, "message") THEN IsKeyError(r, "message")
               ELSE /\ r.kind = "raise"
                    /\ r.exc = "KazooApiError"
                    /\ r.args[2] = GetItem(b, "request_id")
                    /\ r.args[3] = GetItem(b, "message")

\* A body of code "400" without data, with request_id and message, has
\* given KazooApiError.
C5_Witness ==
    \E t \in Callers :
        /\ AnsweredWithError(t)
        /\ BodyField(t, "error") = PyStr("400")
        /\ ~HasKey(frame[t].raw_response.body.value, "data")
        /\ HasKey(frame[t].raw_response.body.value, "request_id")
        /\ HasKey(frame[t].raw_response.body.value, "message")
        /\ frame[t].result.exc = "KazooApiError"

\* C6: for a response of a status other than 500 whose JSON body has a
\* status other than "error", execute returns the parsed body as it is.
C6_SuccessReturnsBody ==
    \A t \in Callers :
        (AnsweredWithStatus(t) /\ ~AnsweredWithError(t))
        => frame[t].result = Returned(frame[t].raw_response.body.value, 87)

\* A body of status "success" with a data field has been returned.
C6_Witness ==
    \E t \in Callers :
        /\ AnsweredWithStatus(t)
        /\ BodyField(t, "status") = PyStr("success")
        /\ HasKey(frame[t].raw_response.body.value, "data")
        /\ frame[t].result.kind = "return"

\* C7: the request sent carries the JSON text of {"data": data} exactly
\* when data was supplied (was not None), and the files exactly when
\* files were given.
C7_DataAndFilesCarried ==
    \A t \in Callers :
        network[t] # NoRequest
        => LET a == frame[t].args
               kw == network[t].kwargs
           IN  /\ "data" \in DOMAIN kw <=> a.data # PyNone
               /\ "data" \in DOMAIN kw
                      => kw["data"] = JsonDumps(PyDict(<<<<"data", a.data>>>>))
               /\ "files" \in DOMAIN kw <=> Truthy(a.files)
               /\ "files" \in DOMAIN kw => kw["files"] = a.files

\* C8: every request sent has Content-Type application/json; it has
\* X-Auth-Token exactly when the descriptor requires authentication, and
\* then with the token of the call (None when none was given); a request
\* of an authentication descriptor has no X-Auth-Token and is a PUT.
C8_HeadersOfRequest ==
    \A t \in Callers :
        network[t] # NoRequest
        => LET h == network[t].headers
           IN  /\ "Content-Type" \in DOMAIN h
               /\ h["Content-Type"] = PyStr("application/json")
               /\ "X-Auth-Token" \in DOMAIN h <=> descriptor.auth_required
               /\ descriptor.auth_required => h["X-Auth-Token"] = frame[t].args.token
               /\ descriptor.cls \in {"UsernamePasswordAuthRequest", "ApiKeyAuthRequest"}
                      => "X-Auth-Token" \notin DOMAIN h /\ network[t].func = "put"

\* The request of a username/password authentication is on the network.
C8_Witness ==
    \E t \in Callers :
        /\ network[t] # NoRequest
        /\ descriptor.cls = "UsernamePasswordAuthRequest"
        /\ network[t].func = "put"
        /\ DOMAIN network[t].headers = {"Content-Type"}

\* C10: a call that passed the validation of its method and parameters
\* (and whose template str.format accepts) has sent exactly one request
\* when execute is left, whatever the outcome.
C10_ExactlyOneDispatch ==
    \A t \in Callers :
        (/\ frame[t].pc = "done"
         /\ frame[t].result.line \notin {61, 65, 54})
        => calls[t] = 1

\* execute run alone on the descriptor self with the arguments a, up to
\* the sending of its request: the exception it raises, or the request.
ExecuteAlone(self, a) ==
    LET v == Validation(self, a.method, a.kwargs)
    IN  IF v # NoResult THEN [result |-> v]
        ELSE Preparation(self, ResolveMethod(self, a.method), a.data, a.token,
                         a.files, a.kwargs, BaseUrl)

\* What caller t has computed, sent and got is what its call gives when
\* run alone on the descriptor.
SameAsAlone(t) ==
    LET f == frame[t]
        alone == ExecuteAlone(descriptor, f.args)
    IN  /\ (f.args # NoArgs /\ f.pc = "validated")
               => Validation(descriptor, f.args.method, f.args.kwargs) = NoResult
        /\ (f.args # NoArgs /\ f.pc \in {"prepared", "waiting"})
               => /\ alone.result = NoResult
                  /\ f.full_url = alone.full_url
                  /\ f.headers = alone.headers
                  /\ f.req_func = alone.req_func
                  /\ f.kwargs = alone.kwargs
        /\ (f.args # NoArgs /\ f.pc = "waiting")
               => network[t] = [func |-> alone.req_func, url |-> alone.full_url,
                                headers |-> alone.headers, kwargs |-> alone.kwargs]
        /\ (f.args # NoArgs /\ f.pc = "done") => f.result = alone.result
        /\ Answered(t) => f.result = HandleResponse(f.raw_response)

\* C9: no step of execute changes the descriptor, and under every
\* interleaving of the callers each call computes, sends and returns what
\* it does when run alone.
C9_DescriptorNotMutated ==
    /\ [][descriptor' = descriptor]_vars
    /\ [](\A t \in Callers : SameAsAlone(t))

\* Two calls are inside execute at once: the request of one is on the
\* network while the other has failed validation, and a third outcome
\* shows the descriptor as constructed.
C9_Witness ==
    \E t, u \in Callers :
        /\ t # u
        /\ frame[t].pc = "waiting"
        /\ frame[t].args.method = PyNone
        /\ network[t] # NoRequest
        /\ frame[u].pc = "done"
        /\ frame[u].result.kind = "raise"
        /\ frame[u].result.exc = "InvalidHttpMethodError"

====
